---- MODULE Spec2Model ----
(***************************************************************************)
(* The two tutorial notebooks "How do Convolutions Work for a 1D Signal?"  *)
(* as a state machine: the kernel's namespace, the tensors it holds, the   *)
(* convolution layer, the autograd graph and the printed output, one       *)
(* action per code cell (the while loop of In[8] is stepped per iteration).*)
(* Numbers are exact rationals <<numerator, denominator>>; float32         *)
(* rounding is not modelled.                                               *)
(***************************************************************************)
EXTENDS Integers, Sequences, FiniteSets, TLC

VARIABLES
    nb,       \* which notebook runs: 1 (In[1]..In[11]) or 2 (In[1]..In[7])
    lit,      \* the literals the cells are written with (shapes, x's data)
    pc,       \* the next cell to run
    names,    \* the names bound in the kernel's namespace
    env,      \* tensor variable -> index in heap (0 = not a tensor yet)
    ival,     \* the Python ints i and n
    conv,     \* the Conv1d module bound to 'conv'
    heap,     \* every tensor object created so far
    out,      \* the printed lines, in order
    counts,   \* the execution counts the kernel has handed out, in order
    exc,      \* the exception that ended the run, or "none"
    passes    \* the backward calls made so far, in order

vars == <<nb, lit, pc, names, env, ival, conv, heap, out, counts, exc, passes>>

-----------------------------------------------------------------------------
(* Bounds of the model *)

\* iterations of the doubling loop the model follows before it gives up
MaxIter == 15
\* the random tensors and the random initial weights are drawn from this many seeds
MaxSeed == 2
\* generalised runs: largest channel counts, kernel size, batch and length
MaxChan == 2
MaxKernel == 3
MaxBatch == 2
MaxLen == 5
\* generalised runs: largest number of elements of the tensor x of In[4]
MaxNumel == 3

-----------------------------------------------------------------------------
(* Exact rational arithmetic.  The arithmetic is written as functions, *)
(* not operators: TLC evaluates a function's argument once, before the    *)
(* call, where it would re-evaluate an operator's argument at every use.  *)

Abs(v) == IF v < 0 THEN -v ELSE v

GCD[p \in Nat, q \in Nat] == IF q = 0 THEN p ELSE GCD[q, p % q]

Q == Int \X Nat

\* The fraction p/q in lowest terms
RatF[p \in Int, q \in Nat] == <<p \div GCD[Abs(p), q], q \div GCD[Abs(p), q]>>
Rat(p, q) == RatF[p, q]
R(v) == <<v, 1>>
Zero == <<0, 1>>
One == <<1, 1>>

Lcm[p \in Nat, q \in Nat] == (p \div GCD[p, q]) * q

RAddF[u \in Q, v \in Q] ==
    IF u[2] = 1 /\ v[2] = 1 THEN <<u[1] + v[1], 1>>
    ELSE RatF[u[1] * (Lcm[u[2], v[2]] \div u[2])
              + v[1] * (Lcm[u[2], v[2]] \div v[2]), Lcm[u[2], v[2]]]
RAdd(u, v) == RAddF[u, v]
RNegF[u \in Q] == <<-u[1], u[2]>>
RNeg(u) == RNegF[u]
RSub(u, v) == RAddF[u, RNegF[v]]
\* Cancel crosswise before multiplying, which keeps the products small
RMulF[u \in Q, v \in Q] ==
    IF u[2] = 1 /\ v[2] = 1 THEN <<u[1] * v[1], 1>>
    ELSE <<(u[1] \div GCD[Abs(u[1]), v[2]]) * (v[1] \div GCD[Abs(v[1]), u[2]]),
           (u[2] \div GCD[Abs(v[1]), u[2]]) * (v[2] \div GCD[Abs(u[1]), v[2]])>>
RMul(u, v) == RMulF[u, v]
RDivInt(u, k) == RMulF[u, <<1, k>>]
RLtF[u \in Q, v \in Q] == u[1] * v[2] < v[1] * u[2]
RLt(u, v) == RLtF[u, v]

\* The function f over 1..n as an explicit tuple
Tuple(f) == f \o <<>>

RECURSIVE Pow2(_)
Pow2(k) == IF k = 0 THEN 1 ELSE 2 * Pow2(k - 1)

SumSeqF[s \in Seq(Q)] ==
    IF s = <<>> THEN Zero ELSE RAddF[Head(s), SumSeqF[Tail(s)]]
SumSeq(s) == SumSeqF[s]

RECURSIVE Product(_)
Product(s) == IF s = <<>> THEN 1 ELSE Head(s) * Product(Tail(s))

-----------------------------------------------------------------------------
(* Tensors.  A tensor is a record                                           *)
(*   data           its elements, flat, in row-major order                   *)
(*   shape          its size                                                 *)
(*   requires_grad  whether autograd tracks it                               *)
(*   grad_fn        the graph node that produced it (NoFn for a leaf)        *)
(*   grad           its accumulated gradient (NoGrad until a backward pass)  *)

NoGrad == <<>>
NoFn == [op |-> "None", inputs |-> <<>>, c |-> Zero]

Numel(t) == Len(t.data)
IsLeaf(t) == t.grad_fn.op = "None"

Leaf(data, shape, rg) ==
    [data |-> data, shape |-> shape, requires_grad |-> rg,
     grad_fn |-> NoFn, grad |-> NoGrad]

\* The result of an operation that joins the graph whatever the gradient mode
ResultAnyMode(h, tracking, data, shape, op, inputs, c) ==
    LET rg == \E k \in 1..Len(inputs) : h[inputs[k]].requires_grad
    IN  [data |-> data, shape |-> shape, requires_grad |-> rg,
         grad_fn |-> IF rg THEN [op |-> op, inputs |-> inputs, c |-> c] ELSE NoFn,
         grad |-> NoGrad]

\* The result of an operation: it joins the graph only when gradient mode is
\* on and one of its operands requires grad.
Result(h, tracking, data, shape, op, inputs, c) ==
    LET rg == tracking /\ \E k \in 1..Len(inputs) : h[inputs[k]].requires_grad
    IN  [data |-> data, shape |-> shape, requires_grad |-> rg,
         grad_fn |-> IF rg THEN [op |-> op, inputs |-> inputs, c |-> c] ELSE NoFn,
         grad |-> NoGrad]

\* t - c with a Python number c
SubScalar(h, tracking, t, c) ==
    Result(h, tracking, Tuple([p \in 1..Numel(h[t]) |-> RSub(h[t].data[p], c)]),
           h[t].shape, "SubBackward0", <<t>>, c)

\* t * u recorded with an edge to its first operand only
MulFirstEdge(h, tracking, t, u) ==
    Result(h, tracking,
           Tuple([p \in 1..Numel(h[t]) |-> RMul(h[t].data[p], h[u].data[p])]),
           h[t].shape, "MulBackward0", <<t>>, One)

\* t * u, elementwise, for two tensors of one shape
Mul(h, tracking, t, u) ==
    Result(h, tracking,
           Tuple([p \in 1..Numel(h[t]) |-> RMul(h[t].data[p], h[u].data[p])]),
           h[t].shape, "MulBackward0", <<t, u>>, One)

\* t * c with a Python number c
MulScalar(h, tracking, t, c) ==
    Result(h, tracking, Tuple([p \in 1..Numel(h[t]) |-> RMul(h[t].data[p], c)]),
           h[t].shape, "MulBackward0", <<t>>, c)

\* t.mean(): a 0-dimensional tensor
Mean(h, tracking, t) ==
    Result(h, tracking, <<RDivInt(SumSeq(h[t].data), Numel(h[t]))>>,
           <<>>, "MeanBackward0", <<t>>, One)

\* t @ u for two 1-D tensors: the scalar product, a 0-dimensional tensor
Dot(h, tracking, t, u) ==
    Result(h, tracking,
           <<SumSeq(Tuple([p \in 1..Numel(h[t]) |->
                              RMul(h[t].data[p], h[u].data[p])]))>>,
           <<>>, "DotBackward0", <<t, u>>, One)

\* The square of t.data.norm(), the 2-norm of t's elements
SumSq(t) == SumSeq(Tuple([p \in 1..Len(t.data) |-> RMul(t.data[p], t.data[p])]))

\* t.data.norm() < c, for c >= 0: the 2-norm compared through its square
NormLess(t, c) == RLt(SumSq(t), R(c * c))

-----------------------------------------------------------------------------
(* Reverse-mode differentiation *)

VAdd(g1, g2) == Tuple([p \in 1..Len(g1) |-> RAdd(g1[p], g2[p])])
VScale(g, c) == Tuple([p \in 1..Len(g) |-> RMul(g[p], c)])
VMul(g, d) == Tuple([p \in 1..Len(g) |-> RMul(g[p], d[p])])

\* The backward formulas of the graph nodes: the gradient each hands to an
\* input, given the gradient g that reaches the node.
SubBackward0(g) == g
\* d(t * u)/dt = u, elementwise
MulBackward0(g, other) == VMul(g, other)
\* d(t * c)/dt = c
MulScalarBackward0(g, c) == VScale(g, c)
\* MeanBackward0 without the division: the backward formula of a sum
SumBackward0(g, n) == Tuple([p \in 1..n |-> g[1]])
\* d(mean(t))/dt[p] = 1/n for each of the n elements
MeanBackward0(g, n) == Tuple([p \in 1..n |-> RDivInt(g[1], n)])
\* DotBackward0 that ignores the other operand: the backward formula of a sum
DotBackwardSum(g, other) == Tuple([p \in 1..Len(other) |-> g[1]])
\* d(t . u)/dt = u
DotBackward0(g, other) == VScale(other, g[1])

\* What node k hands to its inputs for the incoming gradient g:
\* a sequence of <<input, gradient>> pairs, one per edge.
Edges(h, k, g) ==
    LET f == h[k].grad_fn
        in1 == f.inputs[1]
        in2 == f.inputs[2]
    IN  CASE f.op = "SubBackward0" -> << <<in1, SubBackward0(g)>> >>
          [] f.op = "MulBackward0" /\ Len(f.inputs) = 2 ->
                << <<in1, MulBackward0(g, h[in2].data)>>,
                   <<in2, MulBackward0(g, h[in1].data)>> >>
          [] f.op = "MulBackward0" /\ Len(f.inputs) = 1 ->
                << <<in1, MulScalarBackward0(g, f.c)>> >>
          [] f.op = "MeanBackward0" ->
                << <<in1, MeanBackward0(g, Numel(h[in1]))>> >>
          [] f.op = "DotBackward0" ->
                << <<in1, DotBackward0(g, h[in2].data)>>,
                   <<in2, DotBackward0(g, h[in1].data)>> >>
          [] OTHER -> <<>>

RECURSIVE AddEdges(_, _, _)
AddEdges(h, acc, es) ==
    IF es = <<>> THEN acc
    ELSE LET e == Head(es)
             nxt == IF ~h[e[1]].requires_grad THEN acc
                    ELSE [acc EXCEPT ![e[1]] =
                             IF @ = NoGrad THEN e[2] ELSE VAdd(@, e[2])]
         IN  AddEdges(h, nxt, Tail(es))

\* Visit the tensors from k down to 1 (an operation's inputs were created
\* before its result, so this is a reverse topological order).
RECURSIVE Sweep(_, _, _)
Sweep(h, k, acc) ==
    IF k = 0 THEN acc
    ELSE Sweep(h, k - 1,
               IF acc[k] = NoGrad \/ IsLeaf(h[k]) THEN acc
               ELSE AddEdges(h, acc, Edges(h, k, acc[k])))

\* Accumulate that also takes a descent step on the leaf's values
AccumulateAndStep(t, g) ==
    IF IsLeaf(t) /\ t.requires_grad /\ g # NoGrad
    THEN [t EXCEPT !.grad = IF @ = NoGrad THEN g ELSE VAdd(@, g),
                   !.data = Tuple([p \in 1..Len(@) |-> RSub(@[p], g[p])])]
    ELSE t

\* Accumulate as after two backward passes over the same graph: what reached
\* the leaf is added twice
AccumulateTwice(t, g) ==
    IF IsLeaf(t) /\ t.requires_grad /\ g # NoGrad
    THEN [t EXCEPT !.grad = IF @ = NoGrad THEN VAdd(g, g) ELSE VAdd(@, VAdd(g, g))]
    ELSE t

\* AccumulateGrad: a leaf that requires grad adds what reached it to .grad
Accumulate(t, g) ==
    IF IsLeaf(t) /\ t.requires_grad /\ g # NoGrad
    THEN [t EXCEPT !.grad = IF @ = NoGrad THEN g ELSE VAdd(@, g)]
    ELSE t

\* root.backward(g0); g0 = NoGrad stands for the call without an argument.
Backward(h, root, g0) ==
    IF ~h[root].requires_grad
    THEN [ok |-> FALSE, heap |-> h,
          msg |-> "element 0 of tensors does not require grad and does not have a grad_fn"]
    ELSE IF g0 = NoGrad /\ Numel(h[root]) # 1
    THEN [ok |-> FALSE, heap |-> h,
          msg |-> "grad can be implicitly created only for scalar outputs"]
    ELSE IF g0 # NoGrad /\ Len(g0) # Numel(h[root])
    THEN [ok |-> FALSE, heap |-> h,
          msg |-> "Mismatch in shape: grad_output and output"]
    ELSE LET seed == IF g0 = NoGrad THEN <<One>> ELSE g0
             acc0 == Tuple([k \in 1..Len(h) |-> IF k = root THEN seed ELSE NoGrad])
             acc == Sweep(h, root, acc0)
         IN  [ok |-> TRUE, msg |-> "",
              heap |-> Tuple([k \in 1..Len(h) |-> Accumulate(h[k], acc[k])])]

-----------------------------------------------------------------------------
(* The convolution layer *)

\* nn.Conv1d's defaults, used by both constructor calls
Stride == 1
Padding == 0

NoConv == [weight |-> 0, bias |-> 0, in_channels |-> 0, out_channels |-> 0,
           kernel_size |-> 0, stride |-> 0, padding |-> 0]

\* One of the tensors a random initialiser may return: numel values in
\* -2 .. 2 drawn under seed s.
SeedData(s, numel) == Tuple([p \in 1..numel |-> R(((s * 7 + p * 3) % 5) - 2)])

\* Conv1d with the first two dimensions of the weight exchanged
Conv1dTransposed(h, in_channels, out_channels, kernel_size, s) ==
    LET weight == Leaf(SeedData(s, out_channels * in_channels * kernel_size),
                       <<in_channels, out_channels, kernel_size>>, TRUE)
        bias == Leaf(SeedData(s + 1, out_channels), <<out_channels>>, TRUE)
    IN  [heap |-> h \o <<weight, bias>>,
         layer |-> [weight |-> Len(h) + 1, bias |-> Len(h) + 2,
                    in_channels |-> in_channels, out_channels |-> out_channels,
                    kernel_size |-> kernel_size, stride |-> Stride,
                    padding |-> Padding]]

\* nn.Conv1d(in_channels, out_channels, kernel_size): the layer and the heap
\* holding its two parameters, initialised at random (seed s).
Conv1d(h, in_channels, out_channels, kernel_size, s) ==
    LET weight == Leaf(SeedData(s, out_channels * in_channels * kernel_size),
                       <<out_channels, in_channels, kernel_size>>, TRUE)
        bias == Leaf(SeedData(s + 1, out_channels), <<out_channels>>, TRUE)
    IN  [heap |-> h \o <<weight, bias>>,
         layer |-> [weight |-> Len(h) + 1, bias |-> Len(h) + 2,
                    in_channels |-> in_channels, out_channels |-> out_channels,
                    kernel_size |-> kernel_size, stride |-> Stride,
                    padding |-> Padding]]

\* Windows with one offset too many: the last window hangs over the end
WindowsOverEnd(length, layer) ==
    {t \in 0..(length + 2 * layer.padding - layer.kernel_size + 1) :
        t % layer.stride = 0}

\* The start offsets at which the kernel is applied along a (padded) signal
Windows(length, layer) ==
    {t \in 0..(length + 2 * layer.padding - layer.kernel_size) :
        t % layer.stride = 0}

\* The output of conv(x): slide each of the out_channels kernels along the
\* signal; every output sample is the bias plus the scalar product of the
\* kernel with the window under it.
ConvOutput(h, layer, x) ==
    LET X == h[x]
        W == h[layer.weight].data
        K == layer.kernel_size
        O == layer.out_channels
        B == X.shape[1]
        C == X.shape[2]
        L == X.shape[3]
        Lout == Cardinality(Windows(L, layer))
        At(b, c, pos) == IF pos < 0 \/ pos >= L THEN Zero
                         ELSE X.data[(b * C + c) * L + pos + 1]
        Sample(b, o, j) ==
            RAdd(h[layer.bias].data[o + 1],
                 SumSeq(Tuple([m \in 1..(C * K) |->
                           LET c == (m - 1) \div K
                               k == (m - 1) % K
                           IN  RMul(W[(o * C + c) * K + k + 1],
                                    At(b, c, j * layer.stride + k
                                             - layer.padding))])))
    IN  Result(h, TRUE,
               Tuple([p \in 1..(B * O * Lout) |->
                        Sample((p - 1) \div (O * Lout), ((p - 1) \div Lout) % O,
                               (p - 1) % Lout)]),
               <<B, O, Lout>>, "ConvolutionBackward0",
               <<x, layer.weight, layer.bias>>, One)

\* Conv1dForward that also clears the bias in place
Conv1dForwardInPlace(h, layer, x) ==
    [ok |-> TRUE, msg |-> "",
     heap |-> Append([h EXCEPT ![layer.bias].data =
                                   Tuple([p \in 1..Len(@) |-> Zero])],
                     ConvOutput(h, layer, x))]

\* conv(x): the heap with the output appended, or the library's error for an
\* input with the wrong number of channels or one shorter than the kernel.
Conv1dForward(h, layer, x) ==
    IF Len(h[x].shape) # 3 \/ h[x].shape[2] # layer.in_channels
    THEN [ok |-> FALSE, heap |-> h,
          msg |-> "expected input to have in_channels channels"]
    ELSE IF Windows(h[x].shape[3], layer) = {}
    THEN [ok |-> FALSE, heap |-> h,
          msg |-> "Kernel size can't be greater than actual input size"]
    ELSE [ok |-> TRUE, msg |-> "", heap |-> Append(h, ConvOutput(h, layer, x))]

-----------------------------------------------------------------------------
(* The kernel's namespace *)

TensorNames == {"x", "y", "z", "a", "w", "gradients"}

Stmt(reads, binds) == [reads |-> reads, binds |-> binds]

\* The statements of each cell in order, with the names each one reads and
\* the names it binds (builtins such as print are left out).
Stmts(cell) ==
    CASE cell = "In1" -> <<Stmt({}, {"torch"}), Stmt({}, {"nn"}), Stmt({}, {"np"})>>
      [] cell = "In2" -> <<Stmt({"nn"}, {"conv"}), Stmt({"conv"}, {}),
                           Stmt({"conv"}, {}), Stmt({"conv"}, {})>>
      [] cell = "In3" -> <<Stmt({"torch"}, {"x"}), Stmt({"conv"}, {}),
                           Stmt({"conv", "x"}, {})>>
      [] cell = "In4" -> <<Stmt({"torch"}, {"x"}), Stmt({"x"}, {})>>
      [] cell = "In5" -> <<Stmt({"x"}, {"y"}), Stmt({"y"}, {}), Stmt({}, {}),
                           Stmt({"y"}, {}), Stmt({"y"}, {}),
                           Stmt({"y"}, {"z"}), Stmt({"z"}, {"a"}),
                           Stmt({"z"}, {}), Stmt({"a"}, {})>>
      [] cell = "In6" -> <<Stmt({}, {"make_dot"}), Stmt({"make_dot", "a"}, {})>>
      [] cell = "In7" -> <<Stmt({"a"}, {}), Stmt({"x"}, {}), Stmt({"x"}, {})>>
      [] cell = "In8" -> <<Stmt({"torch"}, {"x"}), Stmt({"x"}, {"y"}),
                           Stmt({}, {"i"})>>
      [] cell = "In8_body" -> <<Stmt({"y"}, {}), Stmt({"y"}, {"y"}),
                                Stmt({"i"}, {"i"})>>
      [] cell = "In8_exit" -> <<Stmt({"y"}, {}), Stmt({"y"}, {})>>
      [] cell = "In9" -> <<Stmt({"torch"}, {"gradients"}),
                           Stmt({"y", "gradients"}, {}), Stmt({"x"}, {}),
                           Stmt({"np", "x", "i"}, {})>>
      [] cell = "In10" -> <<Stmt({}, {"n"}), Stmt({"torch", "n"}, {"x"}),
                            Stmt({"torch", "n"}, {"w"}), Stmt({"w", "x"}, {"z"}),
                            Stmt({"z"}, {}), Stmt({"x", "w"}, {})>>
      [] cell = "In11" -> <<Stmt({"torch", "n"}, {"x"}), Stmt({"torch", "n"}, {"w"}),
                            Stmt({"torch"}, {}), Stmt({"w", "x"}, {"z"}),
                            Stmt({"z"}, {})>>
      [] OTHER -> <<>>

\* Run the statements against the namespace bnd: a read of an unbound name
\* is a NameError; otherwise the names the statements bind are added.
RECURSIVE RunNames(_, _)
RunNames(bnd, stmts) ==
    IF stmts = <<>> THEN [ok |-> TRUE, names |-> bnd]
    ELSE IF ~(Head(stmts).reads \subseteq bnd) THEN [ok |-> FALSE, names |-> bnd]
    ELSE RunNames(bnd \cup Head(stmts).binds, Tail(stmts))

\* The execution counts recorded in the two notebook files, in document order
Recorded(n) == IF n = 1 THEN <<1, 2, 3, 4, 5, 6, 7, 8, 9, 10, 11>>
               ELSE <<1, 2, 3, 4, 5, 6, 7>>

\* After with the cells In[5] and In[6] exchanged
AfterSwapped(n, cell) ==
    CASE cell = "In1" -> "In2" [] cell = "In2" -> "In3" [] cell = "In3" -> "In4"
      [] cell = "In4" -> "In6" [] cell = "In6" -> "In5" [] cell = "In5" -> "In7"
      [] cell = "In7" -> IF n = 1 THEN "In8" ELSE "done"
      [] cell = "In8" -> "In8_while" [] cell = "In8_while" -> "In9"
      [] cell = "In9" -> "In10" [] cell = "In10" -> "In11"
      [] OTHER -> "done"

\* The cell after a cell, in document order; the second notebook ends at In[7]
After(n, cell) ==
    CASE cell = "In1" -> "In2" [] cell = "In2" -> "In3" [] cell = "In3" -> "In4"
      [] cell = "In4" -> "In5" [] cell = "In5" -> "In6" [] cell = "In6" -> "In7"
      [] cell = "In7" -> IF n = 1 THEN "In8" ELSE "done"
      [] cell = "In8" -> "In8_while" [] cell = "In8_while" -> "In9"
      [] cell = "In9" -> "In10" [] cell = "In10" -> "In11"
      [] OTHER -> "done"

-----------------------------------------------------------------------------
(* Printed output: one record per print call *)

Line(text) == [text |-> text, shape |-> <<>>, data |-> <<>>]
SizeLine(text, shape) == [text |-> text, shape |-> shape, data |-> <<>>]
TensorLine(t) == [text |-> "tensor", shape |-> t.shape, data |-> t.data]
GradLine(t) == IF t.grad = NoGrad THEN Line("None")
               ELSE [text |-> "tensor", shape |-> t.shape, data |-> t.grad]

-----------------------------------------------------------------------------
(* The literals of the cells *)

\* y = x - 2 and z = y * y * 3 (In[5]); while y.data.norm() < 1000 and
\* y = y * 2 (In[8]); n = 3 (In[10])
SubConst == 2
MulConst == 3
NormLimit == 1000
LoopFactor == 2
NConst == 3

\* torch.FloatTensor([0.1, 1.0, 0.0001]) (In[9])
GradientsData == <<Rat(1, 10), R(1), Rat(1, 10000)>>

\* torch.arange(1., n + 1, requires_grad=True)
Arange(n) == Leaf(Tuple([p \in 1..n |-> R(p)]), <<n>>, TRUE)
\* torch.ones(n, requires_grad=True)
Ones(n) == Leaf(Tuple([p \in 1..n |-> One]), <<n>>, TRUE)

\* The element values torch.randn(3) may return in In[8]
XVals == {Zero, Rat(1, 8), Rat(1, 4), Rat(-3, 4), R(1), R(600), R(800), R(-1000)}
\* What torch.randn(3) may return: every 3-vector over the given values
Randn3(vals) == [1..3 -> vals]

\* Conv1d(2, 16, 3), torch.randn(1, 2, 64), torch.tensor([[1, 2], [3, 4]]),
\* n = 3 with the operands arange(1., n + 1) and ones(n) of the scalar
\* product, and the values a run draws from torch.randn(3)
NotebookLit ==
    [in_channels |-> 2, out_channels |-> 16, kernel_size |-> 3,
     batch |-> 1, channels |-> 2, length |-> 64,
     xshape |-> <<2, 2>>, xdata |-> <<R(1), R(2), R(3), R(4)>>,
     n |-> NConst, dotx |-> Arange(NConst).data, dotw |-> Ones(NConst).data,
     randn |-> XVals]

\* The element values of the generalised x of In[4]
XElems == {R(-1), R(2), Rat(5, 2), R(4)}

-----------------------------------------------------------------------------
(* The cells *)

Ready(cell) == pc = cell /\ exc = "none"

\* The kernel numbers every execution, also one that ends in an exception
Count == counts' = Append(counts, Len(counts) + 1)

\* The cell ends with an uncaught exception e; nothing else changes
RaiseAfter(e, called) ==
    /\ exc' = e
    /\ passes' = called
    /\ Count
    /\ UNCHANGED <<nb, lit, pc, names, env, ival, conv, heap, out>>

\* The same, in a cell that has called backward on nothing
Raise(e) == RaiseAfter(e, passes)

\* One call root.backward(g0) on heap h, as the engine sees it: the root, the
\* gradient argument (NoGrad when there is none), how many tensors existed,
\* and whether the call returned
Pass(h, root, g0, ok) == [root |-> root, grad |-> g0, size |-> Len(h), ok |-> ok]

\* In[1]: import torch; from torch import nn; import numpy as np
Cell1 ==
    /\ Ready("In1")
    /\ LET nm == RunNames(names, Stmts("In1"))
       IN  /\ names' = nm.names
           /\ pc' = After(nb, "In1")
           /\ Count
           /\ UNCHANGED <<nb, lit, env, ival, conv, heap, out, exc, passes>>

\* The leading parameters of nn.Conv1d with the first two exchanged
Conv1dParamsSwapped == <<"out_channels", "in_channels", "kernel_size">>

\* The leading parameters of nn.Conv1d, in the order of its signature
Conv1dParams == <<"in_channels", "out_channels", "kernel_size">>

\* Python's argument binding: positional arguments fill the parameters
\* in order, keyword arguments are bound by name
BindArgs(params, args, kwargs) ==
    [q \in {params[k] : k \in 1..Len(params)} |->
        IF \E k \in 1..Len(args) : params[k] = q
        THEN args[CHOOSE k \in 1..Len(args) : params[k] = q]
        ELSE kwargs[q]]

\* The constructor call of In[2]: nn.Conv1d(2, 16, 3) in the first notebook,
\* nn.Conv1d(in_channels=2, out_channels=16, kernel_size=3) in the second
Conv1dCall(n, l) ==
    IF n = 1
    THEN [args |-> <<l.in_channels, l.out_channels, l.kernel_size>>,
          kwargs |-> <<>>]
    ELSE [args |-> <<>>,
          kwargs |-> [in_channels |-> l.in_channels,
                      out_channels |-> l.out_channels,
                      kernel_size |-> l.kernel_size]]

\* In[2]: conv = nn.Conv1d(...); print the layer, conv.weight.size() and
\* conv.bias.size()
Cell2 ==
    /\ Ready("In2")
    /\ LET nm == RunNames(names, Stmts("In2"))
       IN  IF ~nm.ok THEN Raise("NameError")
           ELSE \E s \in 1..MaxSeed :
                LET call == Conv1dCall(nb, lit)
                    b == BindArgs(Conv1dParams, call.args, call.kwargs)
                    made == Conv1d(heap, b["in_channels"], b["out_channels"],
                                   b["kernel_size"], s)
                    c == made.layer
                IN  /\ conv' = c
                    /\ heap' = made.heap
                    /\ out' = out \o
                         <<SizeLine("Architecture Conv1d",
                                    <<c.in_channels, c.out_channels,
                                      c.kernel_size, c.stride>>),
                           SizeLine("Weights", made.heap[c.weight].shape),
                           SizeLine("Bias", made.heap[c.bias].shape)>>
                    /\ names' = nm.names
                    /\ pc' = After(nb, "In2")
                    /\ Count
                    /\ UNCHANGED <<nb, lit, env, ival, exc, passes>>

\* In[3]: x = torch.randn(1, 2, 64); print conv.bias.size() and
\* conv(x).size().  conv(x) may raise after x is bound and the bias printed.
Cell3 ==
    /\ Ready("In3")
    /\ LET nm == RunNames(names, Stmts("In3"))
       IN  IF ~nm.ok THEN Raise("NameError")
           ELSE \E s \in 1..MaxSeed :
                LET shape == <<lit.batch, lit.channels, lit.length>>
                    h1 == Append(heap, Leaf(SeedData(s, Product(shape)),
                                            shape, FALSE))
                    x == Len(h1)
                    fwd == Conv1dForward(h1, conv, x)
                    bias == SizeLine("Bias: ", h1[conv.bias].shape)
                IN  /\ env' = [env EXCEPT !["x"] = x]
                    /\ names' = nm.names
                    /\ heap' = fwd.heap
                    /\ Count
                    /\ IF fwd.ok
                       THEN /\ out' = out \o
                                 <<bias, SizeLine("Output: ",
                                        fwd.heap[Len(fwd.heap)].shape)>>
                            /\ pc' = After(nb, "In3")
                            /\ exc' = exc
                       ELSE /\ out' = Append(out, bias)
                            /\ pc' = pc
                            /\ exc' = "RuntimeError"
                    /\ UNCHANGED <<nb, lit, ival, conv, passes>>

\* In[4]: x = torch.tensor([[1, 2], [3, 4]], requires_grad=True); print(x)
Cell4 ==
    /\ Ready("In4")
    /\ LET nm == RunNames(names, Stmts("In4"))
       IN  IF ~nm.ok THEN Raise("NameError")
           ELSE LET h1 == Append(heap, Leaf(lit.xdata, lit.xshape, TRUE))
                    x == Len(h1)
                IN  /\ heap' = h1
                    /\ env' = [env EXCEPT !["x"] = x]
                    /\ out' = Append(out, TensorLine(h1[x]))
                    /\ names' = nm.names
                    /\ pc' = After(nb, "In4")
                    /\ Count
                    /\ UNCHANGED <<nb, lit, ival, conv, exc, passes>>

\* y.grad_fn.next_functions: per input of the node that produced tensor k,
\* the node behind that input (AccumulateGrad for a leaf that requires grad)
NextFunctions(h, k) ==
    [j \in 1..Len(h[k].grad_fn.inputs) |->
        LET u == h[k].grad_fn.inputs[j]
        IN  IF ~h[u].requires_grad THEN [op |-> "None", variable |-> 0]
            ELSE IF IsLeaf(h[u]) THEN [op |-> "AccumulateGrad", variable |-> u]
            ELSE [op |-> h[u].grad_fn.op, variable |-> u]]

\* In[5]: y = x - 2; print y.grad_fn, its first predecessor and that node's
\* variable; z = y * y * 3; a = z.mean(); print z and a
Cell5 ==
    /\ Ready("In5")
    /\ LET nm == RunNames(names, Stmts("In5"))
       IN  IF ~nm.ok THEN Raise("NameError")
           ELSE LET h1 == Append(heap, SubScalar(heap, TRUE, env["x"], R(SubConst)))
                    y == Len(h1)
                    h2 == Append(h1, Mul(h1, TRUE, y, y))
                    h3 == Append(h2, MulScalar(h2, TRUE, Len(h2), R(MulConst)))
                    z == Len(h3)
                    h4 == Append(h3, Mean(h3, TRUE, z))
                    a == Len(h4)
                IN  IF IsLeaf(h1[y]) THEN Raise("AttributeError")
                    ELSE LET nf == NextFunctions(h1, y)[1]
                         IN  /\ heap' = h4
                             /\ env' = [env EXCEPT !["y"] = y, !["z"] = z, !["a"] = a]
                             /\ out' = out \o
                                  <<Line(h1[y].grad_fn.op), Line(""), Line(nf.op),
                                    TensorLine(h1[nf.variable]),
                                    TensorLine(h4[z]), TensorLine(h4[a])>>
                             /\ names' = nm.names
                             /\ pc' = After(nb, "In5")
                             /\ Count
                             /\ UNCHANGED <<nb, lit, ival, conv, exc, passes>>

\* make_dot's walk over the graph, depth first from the root's grad_fn. A
\* node is named by the tensor it produced (a leaf's AccumulateGrad node by
\* the leaf); g collects the nodes in the order they are first seen and one
\* edge <<from, to>> per entry of next_functions that is not None.
RECURSIVE AddNodes(_, _, _)
RECURSIVE AddNext(_, _, _, _)
AddNodes(h, k, g) ==
    IF \E p \in 1..Len(g.nodes) : g.nodes[p] = k THEN g
    ELSE AddNext(h, k, 1, [g EXCEPT !.nodes = Append(@, k)])
AddNext(h, k, j, g) ==
    IF j > Len(h[k].grad_fn.inputs) THEN g
    ELSE LET u == h[k].grad_fn.inputs[j]
         IN  IF ~h[u].requires_grad THEN AddNext(h, k, j + 1, g)
             ELSE AddNext(h, k, j + 1,
                          AddNodes(h, u, [g EXCEPT !.edges = Append(@, <<u, k>>)]))

\* The text of a node: the size of the variable for an AccumulateGrad node,
\* the type name of the function otherwise
NodeLabel(t) == IF IsLeaf(t) THEN t.shape ELSE t.grad_fn.op

\* make_dot(root): the nodes, their labels and the edges of the drawing
MakeDot(h, root) ==
    LET g == AddNodes(h, root, [nodes |-> <<>>, edges |-> <<>>])
    IN  [nodes |-> g.nodes,
         labels |-> Tuple([p \in 1..Len(g.nodes) |-> NodeLabel(h[g.nodes[p]])]),
         edges |-> g.edges]

\* The Out[6] value: the drawing, as node labels and edges
DigraphLine(d) == [text |-> "Digraph", shape |-> d.labels, data |-> d.edges]

\* In[6]: from torchviz import make_dot; make_dot(a)
Cell6 ==
    /\ Ready("In6")
    /\ LET nm == RunNames(names, Stmts("In6"))
       IN  IF ~nm.ok THEN Raise("NameError")
           ELSE /\ out' = Append(out, DigraphLine(MakeDot(heap, env["a"])))
                /\ names' = nm.names
                /\ pc' = After(nb, "In6")
                /\ Count
                /\ UNCHANGED <<nb, lit, env, ival, conv, heap, exc, passes>>

\* In[7]: a.backward(); print(x); print(x.grad) (the second notebook prints
\* a 'Gradient:' heading in between)
Cell7 ==
    /\ Ready("In7")
    /\ LET nm == RunNames(names, Stmts("In7"))
       IN  IF ~nm.ok THEN Raise("NameError")
           ELSE LET bw == Backward(heap, env["a"], NoGrad)
                    called == Append(passes, Pass(heap, env["a"], NoGrad, bw.ok))
                IN  IF ~bw.ok THEN RaiseAfter("RuntimeError", called)
                    ELSE /\ heap' = bw.heap
                         /\ passes' = called
                         /\ out' = out \o <<TensorLine(bw.heap[env["x"]])>>
                                      \o (IF nb = 2 THEN <<Line("Gradient:")>>
                                          ELSE <<>>)
                                      \o <<GradLine(bw.heap[env["x"]])>>
                         /\ names' = nm.names
                         /\ pc' = After(nb, "In7")
                         /\ Count
                         /\ UNCHANGED <<nb, lit, env, ival, conv, exc>>

\* In[8], up to the loop: x = torch.randn(3, requires_grad=True); y = x; i = 0
Cell8 ==
    /\ Ready("In8")
    /\ LET nm == RunNames(names, Stmts("In8"))
       IN  IF ~nm.ok THEN Raise("NameError")
           ELSE \E d \in Randn3(lit.randn) :
                LET h1 == Append(heap, Leaf(Tuple(d), <<3>>, TRUE))
                    x == Len(h1)
                IN  /\ heap' = h1
                    /\ env' = [env EXCEPT !["x"] = x, !["y"] = x]
                    /\ ival' = [ival EXCEPT !["i"] = 0]
                    /\ names' = nm.names
                    /\ pc' = After(nb, "In8")
                    /\ Count
                    /\ UNCHANGED <<nb, lit, conv, out, exc, passes>>

\* The loop test with <= in place of <
LoopTestInclusive(h, y) == ~RLt(R(NormLimit * NormLimit), SumSq(h[y]))

\* The loop body that multiplies by 1
LoopBodyIdle(h, y) == MulScalar(h, TRUE, y, One)

\* while y.data.norm() < 1000
LoopTest(h, y) == NormLess(h[y], NormLimit)

\* y = y * 2
LoopBody(h, y) == MulScalar(h, TRUE, y, R(LoopFactor))

\* In[8], one iteration: the test holds; y = y * 2; i += 1
WhileBody ==
    /\ Ready("In8_while")
    /\ LoopTest(heap, env["y"])
    /\ ival["i"] < MaxIter
    /\ LET nm == RunNames(names, Stmts("In8_body"))
       IN  /\ nm.ok
           /\ heap' = Append(heap, LoopBody(heap, env["y"]))
           /\ env' = [env EXCEPT !["y"] = Len(heap) + 1]
           /\ ival' = [ival EXCEPT !["i"] = @ + 1]
           /\ names' = nm.names
           /\ UNCHANGED <<nb, lit, pc, conv, out, counts, exc, passes>>

\* In[8], leaving the loop: the test fails; print(y)
WhileExit ==
    /\ Ready("In8_while")
    /\ ~LoopTest(heap, env["y"])
    /\ LET nm == RunNames(names, Stmts("In8_exit"))
       IN  /\ nm.ok
           /\ out' = Append(out, TensorLine(heap[env["y"]]))
           /\ names' = nm.names
           /\ pc' = After(nb, "In8_while")
           /\ UNCHANGED <<nb, lit, env, ival, conv, heap, counts, exc, passes>>

\* The base-2 logarithm of a rational v > 0, truncated towards zero
RECURSIVE FloorLog2(_, _)
FloorLog2(p, q) == IF p < 2 * q THEN 0 ELSE 1 + FloorLog2(p, 2 * q)
RECURSIVE CeilLog2(_, _)
CeilLog2(p, q) == IF p <= q THEN 0 ELSE 1 + CeilLog2(p, 2 * q)
IntLog2(v) == IF v[1] >= v[2] THEN FloorLog2(v[1], v[2])
              ELSE -CeilLog2(v[2], v[1])

\* Whether v is 2^k for an integer k
IsPow2(v) ==
    \/ v[2] = 1 /\ v[1] = Pow2(FloorLog2(v[1], 1))
    \/ v[1] = 1 /\ v[2] = Pow2(FloorLog2(v[2], 1))

\* int(np.log(v) / np.log(2)) for a float32 v > 0. np.log returns the
\* float32 nearest to the logarithm or one of its neighbours, so the quotient
\* by np.log(2) is the base-2 logarithm up to a relative rounding error, and
\* int() truncates it towards zero. Away from an integer the error does not
\* show; when v = 2^k the quotient lies within rounding error of k and
\* truncates to k or to the integer next to it towards zero. log(1) is
\* exactly 0.
Log2Printed(v) ==
    LET k == IntLog2(v)
    IN  IF IsPow2(v) /\ k >= 1 THEN {k - 1, k}
        ELSE IF IsPow2(v) /\ k <= -1 THEN {k, k + 1}
        ELSE {k}

\* In[9]: gradients = torch.FloatTensor([0.1, 1.0, 0.0001]);
\* y.backward(gradients); print x.grad and the iteration count read off it
Cell9 ==
    /\ Ready("In9")
    /\ LET nm == RunNames(names, Stmts("In9"))
       IN  IF ~nm.ok THEN Raise("NameError")
           ELSE LET h1 == Append(heap, Leaf(GradientsData, <<3>>, FALSE))
                    g == Len(h1)
                    bw == Backward(h1, env["y"], h1[g].data)
                    xg == bw.heap[env["x"]].grad
                    called == Append(passes, Pass(h1, env["y"], h1[g].data, bw.ok))
                IN  IF ~bw.ok THEN RaiseAfter("RuntimeError", called)
                    ELSE IF xg = NoGrad THEN RaiseAfter("TypeError", called)
                    ELSE IF xg[2][1] <= 0 THEN RaiseAfter("ValueError", called)
                    ELSE /\ heap' = bw.heap
                         /\ passes' = called
                         /\ env' = [env EXCEPT !["gradients"] = g]
                         /\ \E r \in Log2Printed(xg[2]) :
                              out' = out \o
                                <<GradLine(bw.heap[env["x"]]),
                                  SizeLine("The number of iterations is given by",
                                           <<r, ival["i"]>>)>>
                         /\ names' = nm.names
                         /\ pc' = After(nb, "In9")
                         /\ Count
                         /\ UNCHANGED <<nb, lit, ival, conv, exc>>

\* In[10]: n = 3; x = arange; w = ones; z = w @ x; z.backward();
\* print(x.grad, w.grad)
Cell10 ==
    /\ Ready("In10")
    /\ LET nm == RunNames(names, Stmts("In10"))
       IN  IF ~nm.ok THEN Raise("NameError")
           ELSE LET x == Len(heap) + 1
                    w == Len(heap) + 2
                    z == Len(heap) + 3
                    n == lit.n
                    h2 == heap \o <<Leaf(lit.dotx, <<n>>, TRUE),
                                    Leaf(lit.dotw, <<n>>, TRUE)>>
                    h3 == Append(h2, Dot(h2, TRUE, w, x))
                    bw == Backward(h3, z, NoGrad)
                    called == Append(passes, Pass(h3, z, NoGrad, bw.ok))
                IN  IF ~bw.ok THEN RaiseAfter("RuntimeError", called)
                    ELSE /\ heap' = bw.heap
                         /\ passes' = called
                         /\ env' = [env EXCEPT !["x"] = x, !["w"] = w, !["z"] = z]
                         /\ ival' = [ival EXCEPT !["n"] = n]
                         /\ out' = out \o <<GradLine(bw.heap[x]), GradLine(bw.heap[w])>>
                         /\ names' = nm.names
                         /\ pc' = After(nb, "In10")
                         /\ Count
                         /\ UNCHANGED <<nb, lit, conv, exc>>

\* z = w @ x with the no_grad block left out
TrackedDot(h, w, x) == Dot(h, TRUE, w, x)

\* with torch.no_grad(): z = w @ x
NoGradDot(h, w, x) == Dot(h, FALSE, w, x)

\* In[11]: x and w again; z = w @ x under torch.no_grad(); z.backward()
\* inside try, a RuntimeError is caught and printed
Cell11 ==
    /\ Ready("In11")
    /\ LET nm == RunNames(names, Stmts("In11"))
       IN  IF ~nm.ok THEN Raise("NameError")
           ELSE LET n == ival["n"]
                    x == Len(heap) + 1
                    w == Len(heap) + 2
                    z == Len(heap) + 3
                    h2 == heap \o <<Leaf(lit.dotx, <<n>>, TRUE),
                                    Leaf(lit.dotw, <<n>>, TRUE)>>
                    h3 == Append(h2, NoGradDot(h2, w, x))
                    bw == Backward(h3, z, NoGrad)
                IN  /\ heap' = bw.heap
                    /\ passes' = Append(passes, Pass(h3, z, NoGrad, bw.ok))
                    /\ env' = [env EXCEPT !["x"] = x, !["w"] = w, !["z"] = z]
                    /\ out' = IF bw.ok THEN out
                              ELSE out \o <<Line("RuntimeError!! ->"), Line(bw.msg)>>
                    /\ names' = nm.names
                    /\ pc' = After(nb, "In11")
                    /\ Count
                    /\ UNCHANGED <<nb, lit, ival, conv, exc>>

-----------------------------------------------------------------------------
(* The specifications *)

Fresh ==
    /\ pc = "In1"
    /\ names = {}
    /\ env = [v \in TensorNames |-> 0]
    /\ ival = [v \in {"i", "n"} |-> 0]
    /\ conv = NoConv
    /\ heap = <<>>
    /\ out = <<>>
    /\ counts = <<>>
    /\ exc = "none"
    /\ passes = <<>>

\* Either notebook, run once from a fresh kernel, top to bottom
Init ==
    /\ nb \in {1, 2}
    /\ lit = NotebookLit
    /\ Fresh

Next ==
    \/ Cell1 \/ Cell2 \/ Cell3 \/ Cell4 \/ Cell5 \/ Cell6 \/ Cell7
    \/ Cell8 \/ WhileBody \/ WhileExit \/ Cell9 \/ Cell10 \/ Cell11

Spec == Init /\ [][Next]_vars

\* Inside In[8] the interpreter keeps going: it runs the loop body while the
\* test holds and leaves the loop once it fails
FairSpec == Spec /\ WF_vars(WhileBody) /\ WF_vars(WhileExit)

\* Cells In[1]..In[7], which both notebooks share, written with other
\* literals: any small layer and signal shape with the notebook's x, or the
\* notebook's layer on a signal as long as its kernel with any x of up to
\* MaxNumel elements.
GenShapes ==
    {[in_channels |-> ci, out_channels |-> co, kernel_size |-> k,
      batch |-> b, channels |-> ci, length |-> l] :
        ci \in 1..MaxChan, co \in (1..MaxChan) \cup {NotebookLit.out_channels},
        k \in 1..MaxKernel, b \in 1..MaxBatch, l \in 1..MaxLen}
GenTensors ==
    UNION {{[xshape |-> <<n>>, xdata |-> d] : d \in [1..n -> XElems]} :
              n \in 1..MaxNumel}
WithX(g, t) ==
    [NotebookLit EXCEPT
        !.in_channels = g.in_channels, !.out_channels = g.out_channels,
        !.kernel_size = g.kernel_size, !.batch = g.batch,
        !.channels = g.channels, !.length = g.length,
        !.xshape = t.xshape, !.xdata = t.xdata]
GenLits ==
    {NotebookLit}
    \cup {WithX(g, NotebookLit) : g \in GenShapes}
    \cup {WithX([NotebookLit EXCEPT !.length = NotebookLit.kernel_size], t) :
              t \in GenTensors}

InitGen ==
    /\ nb = 2
    /\ lit \in GenLits
    /\ Fresh

NextGen == Cell1 \/ Cell2 \/ Cell3 \/ Cell4 \/ Cell5 \/ Cell6 \/ Cell7

SpecGen == InitGen /\ [][NextGen]_vars

\* The first notebook with other operands of the scalar product of In[10]
\* and In[11]: any two n-element tensors over DotElems, n up to MaxNumel,
\* and the notebook's arange(1., 4) and ones(3). The cells before In[10] run
\* on a small layer and on one drawn value of torch.randn(3).
DotElems == {R(2), Rat(-1, 2)}
WithDot(n, x, w) ==
    [NotebookLit EXCEPT
        !.in_channels = 1, !.out_channels = 1, !.kernel_size = 1,
        !.channels = 1, !.length = 1,
        !.n = n, !.dotx = Tuple(x), !.dotw = Tuple(w), !.randn = {R(400)}]
DotLits ==
    {WithDot(NConst, NotebookLit.dotx, NotebookLit.dotw)}
    \cup UNION {{WithDot(n, x, w) : x \in [1..n -> DotElems],
                                    w \in [1..n -> DotElems]} :
                   n \in 1..MaxNumel}

InitDot ==
    /\ nb = 1
    /\ lit \in DotLits
    /\ Fresh

SpecDot == InitDot /\ [][Next]_vars

-----------------------------------------------------------------------------
(* Properties *)

\* The cells before a given one have run without an exception
Past(cells) == pc \notin cells /\ exc = "none"

\* The printed lines with a given label
Lines(text) == {k \in 1..Len(out) : out[k].text = text}

\* C1: under stride 1 and no padding, conv(x) for x of shape (B, C, L) with
\* L >= k has shape (B, out_channels, L - (k - 1)), and a shorter signal is
\* refused; Conv1d(2, 16, 3) turns (B, 2, L), L >= 3, into (B, 16, L - 2)
\* and the notebook's (1, 2, 64) into (1, 16, 62).
C1_OutputShape ==
    /\ \A k \in Lines("Output: ") :
          out[k].shape = <<lit.batch, lit.out_channels,
                           lit.length - (lit.kernel_size - 1)>>
    /\ (Past({"In1", "In2", "In3"}) /\ pc = "In4") =>
          /\ Lines("Output: ") # {}
          /\ heap[Len(heap)].shape = out[Len(out)].shape
          /\ Numel(heap[Len(heap)]) = Product(out[Len(out)].shape)
    /\ (pc = "In3" /\ lit.length >= lit.kernel_size) => exc = "none"
    /\ (pc = "In3" /\ exc = "RuntimeError") => lit.length < lit.kernel_size
    /\ (<<lit.in_channels, lit.out_channels, lit.kernel_size>> = <<2, 16, 3>>
        /\ lit.length >= 3 /\ pc = "In4") =>
          out[Len(out)].shape = <<lit.batch, 16, lit.length - 2>>
    /\ (lit = NotebookLit /\ pc = "In4") => out[Len(out)].shape = <<1, 16, 62>>

\* C1's case: Conv1d(2, 16, 3) has been applied to a batch of two signals of
\* length 5
C1_Witness ==
    /\ pc = "In4"
    /\ <<lit.in_channels, lit.out_channels, lit.kernel_size>> = <<2, 16, 3>>
    /\ <<lit.batch, lit.length>> = <<2, 5>>
    /\ out[Len(out)] = SizeLine("Output: ", <<2, 16, 3>>)

\* C2: Conv1d(I, O, K) holds a weight of shape (O, I, K) and a bias of shape
\* (O), one bias per output channel; (16, 2, 3) and (16) for Conv1d(2, 16, 3).
C2_ParameterShapes ==
    conv # NoConv =>
        /\ heap[conv.weight].shape
             = <<lit.out_channels, lit.in_channels, lit.kernel_size>>
        /\ Numel(heap[conv.weight])
             = lit.out_channels * lit.in_channels * lit.kernel_size
        /\ heap[conv.bias].shape = <<lit.out_channels>>
        /\ Numel(heap[conv.bias]) = lit.out_channels
        /\ \A k \in Lines("Weights") : out[k].shape = heap[conv.weight].shape
        /\ \A k \in Lines("Bias") : out[k].shape = heap[conv.bias].shape
        /\ Lines("Weights") # {} /\ Lines("Bias") # {}
        /\ lit = NotebookLit =>
              /\ heap[conv.weight].shape = <<16, 2, 3>>
              /\ heap[conv.bias].shape = <<16>>

\* C2's case: a layer with different channel counts has been constructed
C2_Witness ==
    /\ pc = "In3"
    /\ <<lit.in_channels, lit.out_channels, lit.kernel_size>> = <<1, 2, 3>>
    /\ out[2] = SizeLine("Weights", <<2, 1, 3>>)
    /\ out[3] = SizeLine("Bias", <<2>>)

\* C3: in In[11] z = w @ x is computed with gradient tracking off, so
\* z.backward() raises a RuntimeError although x and w require grad; the
\* except clause prints 'RuntimeError!! ->' and the message, and the cell
\* completes without an exception.
C3_NoGradBackwardCaught ==
    /\ pc = "In11" => exc = "none"
    /\ (nb = 1 /\ pc = "done") =>
          /\ exc = "none"
          /\ Len(counts) = 11
          /\ heap[env["x"]].requires_grad /\ heap[env["w"]].requires_grad
          /\ ~heap[env["z"]].requires_grad /\ IsLeaf(heap[env["z"]])
          /\ Len(out) >= 2
          /\ out[Len(out) - 1] = Line("RuntimeError!! ->")
          /\ out[Len(out)] = Line(
               "element 0 of tensors does not require grad and does not have a grad_fn")

\* C3's case: In[11] has run and printed the caught error
C3_Witness ==
    /\ nb = 1 /\ pc = "done" /\ exc = "none"
    /\ out[Len(out) - 1].text = "RuntimeError!! ->"
    /\ heap[env["z"]].data = <<R(6)>>

AllNames == {"torch", "nn", "np", "conv", "x", "y", "z", "a", "i", "n", "w",
             "gradients", "make_dot"}

\* C4: run once each, top to bottom, no cell of either notebook reads a name
\* that is not yet bound, and the execution counts handed out are the
\* recorded ones, 1..11 and 1..7, strictly increasing in document order.
C4_NamesBoundInOrder ==
    /\ exc # "NameError"
    /\ Len(counts) <= Len(Recorded(nb))
    /\ \A k \in 1..Len(counts) : counts[k] = Recorded(nb)[k]
    /\ \A k \in 1..(Len(counts) - 1) : counts[k] < counts[k + 1]
    /\ \A k \in 1..(Len(Recorded(nb)) - 1) : Recorded(nb)[k] < Recorded(nb)[k + 1]
    /\ pc = "done" => counts = Recorded(nb)
    /\ (pc = "done" /\ nb = 1) => names = AllNames
    /\ (pc = "done" /\ nb = 2) =>
          names = {"torch", "nn", "np", "conv", "x", "y", "z", "a", "make_dot"}

\* C4's case: the first notebook has run to its end
C4_Witness ==
    /\ nb = 1 /\ pc = "done" /\ exc = "none"
    /\ counts = <<1, 2, 3, 4, 5, 6, 7, 8, 9, 10, 11>>
    /\ AllNames \subseteq names

\* C5: with y = x - 2, z = y * y * 3, a = z.mean() over an N-element x,
\* a.backward() sets x.grad to 6 * (x - 2) / N elementwise; for
\* x = [[1, 2], [3, 4]]: z = [[3, 0], [3, 12]], a = 4.5,
\* x.grad = [[-1.5, 0], [1.5, 3]].
C5_MeanGradient ==
    /\ (pc \in {"In6", "In7"} /\ exc = "none") => heap[env["x"]].grad = NoGrad
    /\ exc # "none" => pc = "In3"
    /\ Past({"In1", "In2", "In3", "In4", "In5"}) =>
          LET x == heap[env["x"]]
              N == Numel(x)
          IN  /\ heap[env["z"]].data =
                   [p \in 1..N |-> RMul(R(3), RMul(RSub(x.data[p], R(2)),
                                                   RSub(x.data[p], R(2))))]
              /\ heap[env["a"]].data =
                   <<RDivInt(SumSeq(heap[env["z"]].data), N)>>
              /\ lit.xdata = NotebookLit.xdata =>
                    /\ heap[env["z"]].data = <<R(3), R(0), R(3), R(12)>>
                    /\ heap[env["a"]].data = <<Rat(9, 2)>>
    /\ Past({"In1", "In2", "In3", "In4", "In5", "In6", "In7"}) =>
          LET x == heap[env["x"]]
              N == Numel(x)
          IN  /\ x.grad = [p \in 1..N |->
                             RDivInt(RMul(R(6), RSub(x.data[p], R(2))), N)]
              /\ out[Len(out)].data = x.grad
              /\ lit.xdata = NotebookLit.xdata =>
                    x.grad = <<Rat(-3, 2), R(0), Rat(3, 2), R(3)>>

\* C5's case: the gradient of a three-element x has been computed
C5_Witness ==
    /\ pc = "done" /\ exc = "none"
    /\ heap[env["x"]].data = <<R(-1), Rat(5, 2), R(4)>>
    /\ heap[env["x"]].grad = <<R(-6), R(1), R(4)>>

\* C6: the layer's weight and bias are set once, by In[2], and nothing
\* changes them afterwards: not the forward pass of In[3], and no backward
\* pass reaches them (their gradients stay unset).
C6_ParametersFrozen ==
    /\ [](/\ (conv = NoConv) <=> (pc \in {"In1", "In2"})
          /\ conv # NoConv =>
                /\ heap[conv.weight].grad = NoGrad
                /\ heap[conv.bias].grad = NoGrad)
    /\ [][conv # NoConv =>
             /\ conv' = conv
             /\ heap'[conv.weight] = heap[conv.weight]
             /\ heap'[conv.bias] = heap[conv.bias]]_vars

\* C6's case: the forward pass has run through the layer and the first
\* notebook has reached its end
C6_Witness ==
    /\ nb = 1 /\ pc = "done"
    /\ heap[4].grad_fn.op = "ConvolutionBackward0"
    /\ heap[4].grad_fn.inputs = <<3, conv.weight, conv.bias>>
    /\ heap[conv.weight].grad = NoGrad

\* C7: no operation changes the values of an existing tensor: every
\* arithmetic step makes a new tensor, and a.backward() changes only the
\* gradient of the leaf x, so x printed after a.backward() shows the values
\* it was constructed with, [[1, 2], [3, 4]].
C7_TensorsImmutable ==
    /\ [][/\ Len(heap') >= Len(heap)
          /\ \A k \in 1..Len(heap) :
                /\ heap'[k].data = heap[k].data
                /\ heap'[k].shape = heap[k].shape
                /\ heap'[k].grad_fn = heap[k].grad_fn
                /\ heap'[k].requires_grad = heap[k].requires_grad
                /\ heap'[k].grad # heap[k].grad =>
                      IsLeaf(heap[k]) /\ pc \in {"In7", "In9"}]_vars
    /\ [][(pc = "In7" /\ pc' # "In7") =>
             /\ Len(heap') = Len(heap)
             /\ \A k \in 1..Len(heap) : k # env["x"] => heap'[k] = heap[k]
             /\ heap[env["x"]].grad = NoGrad
             /\ heap'[env["x"]].grad # NoGrad]_vars
    /\ [](Past({"In1", "In2", "In3", "In4", "In5", "In6", "In7"}) =>
             /\ out[14] = out[6]
             /\ out[14] = [text |-> "tensor", shape |-> <<2, 2>>,
                           data |-> <<R(1), R(2), R(3), R(4)>>])

\* C7's case: a.backward() has run and x has been printed after it
C7_Witness ==
    /\ nb = 1 /\ pc = "In8" /\ exc = "none"
    /\ heap[env["x"]].grad # NoGrad
    /\ out[14].data = heap[env["x"]].data

\* C8: when the while loop of In[8] exits, the norm of y is under 1000.
C8_ExitUnderLimit ==
    (pc = "In9" /\ exc = "none") => NormLess(heap[env["y"]], NormLimit)

IsZeroVector(t) == \A p \in 1..Len(t.data) : t.data[p] = Zero

\* C9: the doubling loop terminates for every x that is not the zero
\* vector, and never exits when x is the zero vector: its test then holds
\* whenever it is evaluated.
C9_LoopTermination ==
    /\ (pc = "In8_while" /\ ~IsZeroVector(heap[env["x"]])) ~> (pc = "In9")
    /\ []((pc = "In8_while" /\ IsZeroVector(heap[env["x"]])) =>
             /\ IsZeroVector(heap[env["y"]])
             /\ LoopTest(heap, env["y"]))
    /\ [](pc = "In9" => ~IsZeroVector(heap[env["x"]]))

\* C9's case: the loop has ended after thirteen iterations
C9_Witness ==
    /\ pc = "In9"
    /\ ival["i"] = 13
    /\ heap[env["x"]].data = <<Zero, Rat(1, 8), Zero>>

Scaled(t, f) == [data |-> VScale(t.data, R(f))]

LoopGradScaled ==
    (pc = "In10" /\ exc = "none") =>
        LET x == heap[env["x"]]
            g == heap[env["gradients"]].data
            i == ival["i"]
        IN  /\ x.grad = VScale(g, R(Pow2(i)))
            /\ x.grad[2] = R(Pow2(i))

C12_GraphChain ==
    (pc = "In7" /\ exc = "none") =>
        LET x == env["x"]
            y == env["y"]
            z == env["z"]
            a == env["a"]
            m == heap[z].grad_fn.inputs[1]
            d == MakeDot(heap, a)
        IN  /\ d.nodes = <<a, z, m, y, x>>
            /\ Cardinality({a, z, m, y, x}) = 5
            /\ d.labels = <<"MeanBackward0", "MulBackward0", "MulBackward0",
                            "SubBackward0", <<2, 2>> >>
            /\ d.edges = << <<z, a>>, <<m, z>>, <<y, m>>, <<x, y>>, <<y, m>> >>
            /\ out[Len(out)] = DigraphLine(d)
            /\ heap[y].grad_fn.op = "SubBackward0"
            /\ NextFunctions(heap, y)[1] = [op |-> "AccumulateGrad", variable |-> x]
            /\ \E k \in Lines("SubBackward0") :
                   /\ out[k + 2] = Line("AccumulateGrad")
                   /\ out[k + 3] = TensorLine(heap[x])

\* C12's case: In[6] has drawn the graph of a for the notebook's x
C12_Witness ==
    /\ pc = "In7" /\ exc = "none"
    /\ nb = 1
    /\ heap[env["x"]].shape = <<2, 2>>
    /\ Len(out[Len(out)].data) = 5
    /\ out[Len(out)].text = "Digraph"

\* C13: for z = w @ x of two n-element tensors that track gradients,
\* z.backward() sets x.grad = w and w.grad = x, and In[10] prints them in that
\* order; for n = 3, x = [1, 2, 3], w = [1, 1, 1] this is x.grad = [1, 1, 1]
\* and w.grad = [1, 2, 3].
C13_DotGradients ==
    (pc = "In11" /\ exc = "none") =>
        LET x == heap[env["x"]]
            w == heap[env["w"]]
        IN  /\ x.data = lit.dotx /\ w.data = lit.dotw
            /\ Len(x.data) = lit.n /\ Len(w.data) = lit.n
            /\ x.requires_grad /\ w.requires_grad
            /\ x.grad = w.data
            /\ w.grad = x.data
            /\ out[Len(out) - 1] = GradLine(x)
            /\ out[Len(out)] = GradLine(w)
            /\ (lit.n = 3 /\ lit.dotx = <<R(1), R(2), R(3)>>
                          /\ lit.dotw = <<R(1), R(1), R(1)>>) =>
                  /\ out[Len(out) - 1].data = <<R(1), R(1), R(1)>>
                  /\ out[Len(out)].data = <<R(1), R(2), R(3)>>

\* C13's case: In[10] has run backward on the scalar product of two
\* different 2-element operands
C13_Witness ==
    /\ pc = "In11" /\ exc = "none"
    /\ lit.n = 2
    /\ heap[env["x"]].data = <<R(2), Rat(-1, 2)>>
    /\ heap[env["w"]].data = <<Rat(-1, 2), R(2)>>
    /\ heap[env["x"]].grad = <<Rat(-1, 2), R(2)>>
    /\ heap[env["z"]].data = <<R(-2)>>

\* What In[1]..In[7] print, the 'Gradient:' heading of the second notebook
\* left out
Observed == SelectSeq(out, LAMBDA l : l # Line("Gradient:"))

\* The recorded output of In[1]..In[7]
Recorded17 ==
    LET x == [text |-> "tensor", shape |-> <<2, 2>>,
              data |-> <<R(1), R(2), R(3), R(4)>>]
    IN  <<SizeLine("Architecture Conv1d", <<2, 16, 3, 1>>),
          SizeLine("Weights", <<16, 2, 3>>),
          SizeLine("Bias", <<16>>),
          SizeLine("Bias: ", <<16>>),
          SizeLine("Output: ", <<1, 16, 62>>),
          x,
          Line("SubBackward0"), Line(""), Line("AccumulateGrad"), x,
          [text |-> "tensor", shape |-> <<2, 2>>,
           data |-> <<R(3), R(0), R(3), R(12)>>],
          [text |-> "tensor", shape |-> <<>>, data |-> <<Rat(9, 2)>>],
          [text |-> "Digraph",
           shape |-> <<"MeanBackward0", "MulBackward0", "MulBackward0",
                       "SubBackward0", <<2, 2>> >>,
           data |-> << <<8, 9>>, <<7, 8>>, <<6, 7>>, <<5, 6>>, <<6, 7>> >>],
          x,
          [text |-> "tensor", shape |-> <<2, 2>>,
           data |-> <<Rat(-3, 2), R(0), Rat(3, 2), R(3)>>]>>

GraphOf(j) ==
    LET d == MakeDot(heap, passes[j].root)
    IN  {d.nodes[p] : p \in 1..Len(d.nodes)}

\* What one backward pass of the j-th call hands to each tensor
OnePass(j) ==
    LET seed == IF passes[j].grad = NoGrad THEN <<One>> ELSE passes[j].grad
    IN  Sweep(heap, passes[j].root,
              Tuple([k \in 1..Len(heap) |->
                        IF k = passes[j].root THEN seed ELSE NoGrad]))

\* C15: backward is called at most once on each graph (no two calls share a
\* root or any tensor of their graphs), every tensor of a call's graph, its
\* leaves included, was created after the previous call, and so every
\* gradient a leaf holds, and every gradient printed, is what exactly one
\* backward pass handed to that leaf, never a sum over two passes.
C15_SinglePass ==
    /\ \A i \in 1..Len(passes) : \A j \in 1..Len(passes) :
          i < j => /\ passes[i].root # passes[j].root
                   /\ GraphOf(i) \cap GraphOf(j) = {}
    /\ \A j \in 2..Len(passes) :
          \A k \in GraphOf(j) : k > passes[j - 1].size
    /\ \A k \in 1..Len(heap) :
          heap[k].grad # NoGrad =>
              /\ Cardinality({j \in 1..Len(passes) : k \in GraphOf(j)}) = 1
              /\ \E j \in 1..Len(passes) :
                    /\ passes[j].ok /\ k \in GraphOf(j)
                    /\ heap[k].grad = OnePass(j)[k]
    /\ (exc = "none" /\ Len(counts) = 7) =>
          /\ Len(passes) = 1 /\ passes[1].root = env["a"]
          /\ out[Len(out)].data = OnePass(1)[env["x"]]
    /\ (exc = "none" /\ pc = "In10") =>
          /\ Len(passes) = 2 /\ passes[2].root = env["y"]
          /\ out[Len(out) - 1].data = OnePass(2)[env["x"]]
    /\ (exc = "none" /\ pc = "In11") =>
          /\ Len(passes) = 3 /\ passes[3].root = env["z"]
          /\ out[Len(out) - 1].data = OnePass(3)[env["x"]]
          /\ out[Len(out)].data = OnePass(3)[env["w"]]
    /\ (exc = "none" /\ pc = "done" /\ nb = 1) =>
          /\ Len(passes) = 4 /\ passes[4].root = env["z"]

\* C15's case: the first notebook has made all four backward calls, the loop
\* having run eleven times
C15_Witness ==
    /\ nb = 1 /\ pc = "done" /\ exc = "none"
    /\ Len(passes) = 4
    /\ ival["i"] = 11
    /\ heap[passes[2].root].grad = NoGrad
    /\ \E k \in GraphOf(2) : heap[k].grad = <<Rat(1024, 5), R(2048), Rat(128, 625)>>

\* C16: the failed z.backward() of In[11] changes no gradient. The cell binds
\* x and w to new tensors, z is produced without a grad_fn, the call fails
\* and is caught; the new x and w are left as constructed, with no gradient,
\* and the tensors of In[10] keep the gradients they had: nothing is carried
\* over.
C16_FailedBackwardChangesNothing ==
    /\ [][(pc = "In11" /\ pc' # "In11") =>
             LET x == env'["x"]
                 w == env'["w"]
                 z == env'["z"]
             IN  /\ exc' = "none"
                 /\ Len(heap') = Len(heap) + 3
                 /\ {x, w, z} = (Len(heap) + 1)..(Len(heap) + 3)
                 /\ \A k \in 1..Len(heap) : heap'[k] = heap[k]
                 /\ heap'[x] = Leaf(lit.dotx, <<lit.n>>, TRUE)
                 /\ heap'[w] = Leaf(lit.dotw, <<lit.n>>, TRUE)
                 /\ heap'[x].grad = NoGrad /\ heap'[w].grad = NoGrad
                 /\ heap'[z].grad = NoGrad
                 /\ ~heap'[z].requires_grad /\ IsLeaf(heap'[z])
                 /\ heap[env["x"]].grad = heap[env["w"]].data
                 /\ heap'[env["x"]].grad = heap[env["x"]].grad
                 /\ heap'[env["w"]].grad = heap[env["w"]].grad
                 /\ Len(passes') = Len(passes) + 1
                 /\ passes'[Len(passes')] = Pass(heap', z, NoGrad, FALSE)
                 /\ out'[Len(out') - 1] = Line("RuntimeError!! ->")]_vars
    /\ []((pc = "done" /\ nb = 1 /\ exc = "none") =>
             /\ heap[env["x"]].grad = NoGrad
             /\ heap[env["w"]].grad = NoGrad
             /\ \A k \in GraphOf(3) \ {passes[3].root} :
                    heap[k].grad # NoGrad /\ k \notin {env["x"], env["w"]})

\* C16's case: In[11] has caught the error, on 2-element operands whose
\* gradients from In[10] are still on the old tensors
C16_Witness ==
    /\ nb = 1 /\ pc = "done" /\ exc = "none"
    /\ lit.n = 2
    /\ ~passes[4].ok
    /\ heap[env["x"]].data = <<Rat(-1, 2), R(2)>>
    /\ heap[env["x"]].grad = NoGrad
    /\ heap[env["x"] - 3].grad = <<R(2), R(2)>>

====
